---- MODULE Spec2Model ----
(***************************************************************************)
(* Adapter enumeration and capability translation of the D3D9-to-D3D11     *)
(* layer: Context (src/src/core/context.rs) and Adapter                    *)
(* (src/src/core/adapter.rs).                                              *)
(*                                                                         *)
(* The environment (the DXGI factory, the physical GPUs, their outputs and *)
(* the D3D11 capability devices) is modelled by the outcomes of the calls  *)
(* the code makes into it.  Options and Results are sequences: <<>> is     *)
(* None / Err, <<v>> is Some(v) / Ok(v).  Pointers are modelled by whether *)
(* they are non-null.                                                      *)
(***************************************************************************)
EXTENDS Integers, Sequences, FiniteSets, TLC

VARIABLES
    gpus,       \* environment: the physical GPUs the factory enumerates, by raw ordinal
    created,    \* Context::new returned Ok (the factory could be created)
    adapters,   \* Context.adapters
    queries,    \* call-count stub: GetDisplayModeList calls per adapter and format
    last,       \* the last legacy call: its arguments, status, return value, out-parameter
    aborted,    \* the process was aborted by a failed assertion
    conc,       \* the threads inside Adapter::mode_count / Adapter::mode, and what they did
    fpucw       \* the x87 FPU control word of the process: the set of its bits that are 1

vars == <<gpus, created, adapters, queries, last, aborted, conc, fpucw>>

(***************************************************************************)
(* Bounds of the model.                                                    *)
(***************************************************************************)
MaxGpus == 2        \* physical GPUs the factory may enumerate
MaxModes == 2       \* display modes an output reports for one format
MaxQuality == 1     \* multisample quality levels a device reports

\* The largest ordinal TLC's integers hold.  It stands for u32::MAX:
\* `adapter as usize` widens, so no ordinal is truncated on the way to the list.
MaxOrdinal == 1073741824 + 1073741823

Ordinals == (0 .. MaxGpus) \cup {MaxOrdinal}

DevTypes == {"D3DDEVTYPE_HAL", "D3DDEVTYPE_REF", "D3DDEVTYPE_SW"}

Formats == {"D3DFMT_X8R8G8B8", "D3DFMT_R5G6B5", "D3DFMT_D24S8"}

\* fmt::is_display_mode_format: the closed set of 16/32-bit RGB display formats.
is_display_mode_format(fmt) == fmt \in {"D3DFMT_X8R8G8B8", "D3DFMT_R5G6B5"}

\* fmt::is_depth_stencil_format: the closed set of depth/stencil formats.
is_depth_stencil_format(fmt) == fmt \in {"D3DFMT_D24S8"}

\* check_mut_ref / check_not_null: a null pointer is an error, reported as InvalidCall.
check_mut_ref(ptr) == IF ptr THEN <<"ref">> ELSE <<>>

(***************************************************************************)
(* Environment: a physical GPU is the outcome of each call Adapter::new    *)
(* makes on it.  A call the code never reaches has no outcome, so its      *)
(* field is FALSE.                                                         *)
(***************************************************************************)
GpuSet ==
    { g \in [descOk : BOOLEAN, hasOutput : BOOLEAN, outDescOk : BOOLEAN, devOk : BOOLEAN] :
        /\ (~g.descOk => ~g.hasOutput /\ ~g.devOk)
        /\ (~g.hasOutput => ~g.outDescOk) }

GpuLists(n) == UNION { [1 .. k -> GpuSet] : k \in 0 .. n }

\* DXGI_MODE_DESC values an output may report (or leave behind in the buffer).
ModeSet ==
    { [Width |-> 800, Height |-> 600, RefreshRate |-> [Numerator |-> 60000, Denominator |-> 1001]],
      [Width |-> 1024, Height |-> 768, RefreshRate |-> [Numerator |-> 60, Denominator |-> 0]] }

EmptyCache == [f \in Formats |-> <<>>]

(***************************************************************************)
(* Adapter::new(index, adapter): Err is <<>>, Ok(a) is <<a>>.              *)
(***************************************************************************)
AdapterNew_desc_unchecked(index, gpu) ==
    IF ~gpu.descOk THEN <<>>
    ELSE IF ~gpu.devOk THEN <<>>
    ELSE << [ index        |-> index,
              adapter_desc |-> [AdapterLuid |-> index],
              output       |-> gpu.hasOutput,
              output_desc  |-> IF gpu.hasOutput
                               THEN << [Monitor |-> index + 1] >>
                               ELSE <<>>,
              mode_cache   |-> EmptyCache ] >>

AdapterNew(index, gpu) ==
    IF ~gpu.descOk THEN <<>>                    \* GetDesc failed: `?`
    ELSE IF ~gpu.devOk THEN <<>>                \* D3D11CreateDevice failed: `?`
    ELSE << [ index        |-> index,
              adapter_desc |-> [AdapterLuid |-> index],
              output       |-> gpu.hasOutput,
              output_desc  |-> IF gpu.hasOutput /\ gpu.outDescOk
                               THEN << [Monitor |-> index + 1] >>
                               ELSE <<>>,
              mode_cache   |-> EmptyCache ] >>

(***************************************************************************)
(* The scan of Context::new: (0..).scan(.., |adapter, id| ..).fuse().      *)
(* The closure's None ends the scan, whether it comes from EnumAdapters    *)
(* failing or from Adapter::new(..).ok().                                  *)
(***************************************************************************)
RECURSIVE ScanAdaptersSkipping(_, _)
ScanAdaptersSkipping(env, id) ==
    IF id < Len(env)
    THEN LET a == AdapterNew(id, env[id + 1])
         IN  a \o ScanAdaptersSkipping(env, id + 1)
    ELSE <<>>

RECURSIVE ScanAdapters(_, _)
ScanAdapters(env, id) ==
    IF id < Len(env)                            \* factory.EnumAdapters(id, ..) == 0
    THEN LET a == AdapterNew(id, env[id + 1])
         IN  IF a # <<>> THEN a \o ScanAdapters(env, id + 1) ELSE <<>>
    ELSE <<>>

\* No call is in progress: the value of `last` between two calls.
NoCall == [op |-> "none", args |-> [adapter |-> 0], ret |-> "Success", out |-> <<>>, val |-> <<>>]

\* The threads that may be inside one Adapter at once.
Threads == {1, 2}

\* A thread that is not inside a call.
IdleThread == [pc |-> "idle", op |-> "none", fmt |-> "none", buf |-> <<>>, val |-> <<>>]

\* No thread is inside a call, and nothing has been inserted into a mode cache.
ConcIdle ==
    [th |-> [t \in Threads |-> IdleThread], inserts |-> [f \in Formats |-> 0], race |-> FALSE]

\* The control word a process starts with (FNINIT): all exceptions masked,
\* extended precision, round to nearest; 0x037F.
DefaultCw == (0 .. 6) \cup {8, 9}

\* The state Context::new leaves, for a factory outcome and a list of GPUs.
AfterNew(factoryOk, env) ==
    /\ created = factoryOk
    /\ gpus = (IF factoryOk THEN env ELSE <<>>)
    /\ adapters = (IF factoryOk THEN ScanAdapters(env, 0) ELSE <<>>)
    /\ queries = [a \in 1 .. Len(adapters) |-> [f \in Formats |-> 0]]
    /\ last = NoCall
    /\ aborted = FALSE
    /\ conc = ConcIdle
    /\ fpucw = DefaultCw


(***************************************************************************)
(* Adapter: the display-mode cache.                                        *)
(*                                                                         *)
(* An operation that may fill the cache yields the set of its possible     *)
(* outcomes: the value returned, the cache afterwards and the number of    *)
(* GetDisplayModeList calls it made on the output.                         *)
(***************************************************************************)

\* The buffer after the two GetDisplayModeList calls of one population.  The first
\* call sets `num` only when it succeeds (hr1 = 0); the buffer holds `num` entries,
\* uninitialised ones included, whatever the second call (hr2) did with them.
DisplayModeLists(hr1, hr2) ==
    LET nums == IF hr1 = 0 THEN 0 .. MaxModes ELSE {0}
    IN  UNION { [1 .. num -> ModeSet] : num \in nums }

DriverResults == {0, -1}

cache_display_modes_requery(self, fmt) ==
    IF ~self.output
    THEN { [mode_cache |-> self.mode_cache, calls |-> 0] }
    ELSE { [mode_cache |-> [self.mode_cache EXCEPT ![fmt] = <<l>>], calls |-> 2] :
             l \in UNION { DisplayModeLists(hr1, hr2) : hr1 \in DriverResults, hr2 \in DriverResults } }

cache_display_modes_single_entry(self, fmt) ==
    IF ~self.output
    THEN { [mode_cache |-> self.mode_cache, calls |-> 0] }
    ELSE IF self.mode_cache[fmt] # <<>>
    THEN { [mode_cache |-> self.mode_cache, calls |-> 0] }
    ELSE { [mode_cache |-> [EmptyCache EXCEPT ![fmt] = <<l>>], calls |-> 2] :
             l \in UNION { DisplayModeLists(hr1, hr2) : hr1 \in DriverResults, hr2 \in DriverResults } }

cache_display_modes(self, fmt) ==
    IF ~self.output
    THEN { [mode_cache |-> self.mode_cache, calls |-> 0] }
    ELSE IF self.mode_cache[fmt] # <<>>         \* contains_key: nothing to do
    THEN { [mode_cache |-> self.mode_cache, calls |-> 0] }
    ELSE { [mode_cache |-> [self.mode_cache EXCEPT ![fmt] = <<l>>], calls |-> 2] :
             l \in UNION { DisplayModeLists(hr1, hr2) : hr1 \in DriverResults, hr2 \in DriverResults } }

mode_count_any_format(self, fmt) ==
    IF ~self.output
    THEN { [val |-> 0, mode_cache |-> self.mode_cache, calls |-> 0] }
    ELSE { [val |-> Len(c.mode_cache[fmt][1]), mode_cache |-> c.mode_cache, calls |-> c.calls] :
             c \in cache_display_modes(self, fmt) }

mode_count(self, fmt) ==
    IF ~self.output \/ ~is_display_mode_format(fmt)
    THEN { [val |-> 0, mode_cache |-> self.mode_cache, calls |-> 0] }
    ELSE { [val |-> Len(c.mode_cache[fmt][1]), mode_cache |-> c.mode_cache, calls |-> c.calls] :
             c \in cache_display_modes(self, fmt) }

\* The D3DDISPLAYMODE built from a cached DXGI_MODE_DESC.
DisplayModeOf(m, fmt) ==
    [ Width       |-> m.Width,
      Height      |-> m.Height,
      RefreshRate |-> IF m.RefreshRate.Denominator = 0
                      THEN 0
                      ELSE m.RefreshRate.Numerator \div m.RefreshRate.Denominator,
      Format      |-> fmt ]

mode_inclusive_index(self, fmt, index) ==
    IF ~self.output \/ ~is_display_mode_format(fmt)
    THEN { [val |-> <<>>, mode_cache |-> self.mode_cache, calls |-> 0] }
    ELSE { [ val        |-> LET modes == c.mode_cache[fmt][1]
                            IN  IF index < Len(modes) THEN << DisplayModeOf(modes[index + 1], fmt) >>
                                ELSE IF index = Len(modes) /\ index > 0
                                THEN << DisplayModeOf(modes[index], fmt) >>
                                ELSE <<>>,
             mode_cache |-> c.mode_cache,
             calls      |-> c.calls ] : c \in cache_display_modes(self, fmt) }

mode(self, fmt, index) ==
    IF ~self.output \/ ~is_display_mode_format(fmt)
    THEN { [val |-> <<>>, mode_cache |-> self.mode_cache, calls |-> 0] }
    ELSE { [ val        |-> LET modes == c.mode_cache[fmt][1]
                            IN  IF index < Len(modes)       \* modes.get(index as usize)
                                THEN << DisplayModeOf(modes[index + 1], fmt) >>
                                ELSE <<>>,
             mode_cache |-> c.mode_cache,
             calls      |-> c.calls ] : c \in cache_display_modes(self, fmt) }

(***************************************************************************)
(* Adapter: format and multisampling support, caps, identifier, monitor.   *)
(***************************************************************************)
ResourceTypes ==
    {"Surface", "Volume", "Texture", "VolumeTexture", "CubeTexture", "VertexBuffer", "IndexBuffer"}

UsageBits == {"AUTO_GEN_MIP_MAP", "RENDER_TARGET", "DEPTH_STENCIL", "DYNAMIC"}

\* The D3D11_FORMAT_SUPPORT bits the code reads; a mask is the set of its bits.
SupportBits ==
    { "TEXTURE2D", "TEXTURE3D", "TEXTURECUBE", "IA_VERTEX_BUFFER", "IA_INDEX_BUFFER",
      "MIP_AUTOGEN", "RENDER_TARGET", "DEPTH_STENCIL" }

\* `dev` is what the capability device answers: the HRESULT of CheckFormatSupport
\* and the mask it wrote.
is_format_supported_ignoring_failure(dev, rt, usage) ==
    LET support == dev.support
        check_rt(d3d9_rt, sp) == (rt = d3d9_rt) /\ (sp \notin support)
        check_usage(d3d9_usage, uf) == (d3d9_usage \in usage) /\ (uf \notin support)
    IN  ~( \/ check_rt("Surface", "TEXTURE2D")
           \/ check_rt("Volume", "TEXTURE3D")
           \/ check_rt("Texture", "TEXTURE2D")
           \/ check_rt("VolumeTexture", "TEXTURE3D")
           \/ check_rt("CubeTexture", "TEXTURECUBE")
           \/ check_rt("VertexBuffer", "IA_VERTEX_BUFFER")
           \/ check_rt("IndexBuffer", "IA_INDEX_BUFFER")
           \/ check_usage("AUTO_GEN_MIP_MAP", "MIP_AUTOGEN")
           \/ check_usage("RENDER_TARGET", "RENDER_TARGET")
           \/ check_usage("DEPTH_STENCIL", "DEPTH_STENCIL") )

is_format_supported(dev, rt, usage) ==
    IF dev.hr # 0 THEN FALSE                    \* CheckFormatSupport failed
    ELSE
    LET support == dev.support
        \* TRUE if a resource type / usage is requested and lacks support.
        check_rt(d3d9_rt, sp) == (rt = d3d9_rt) /\ (sp \notin support)
        check_usage(d3d9_usage, uf) == (d3d9_usage \in usage) /\ (uf \notin support)
    IN  ~( \/ check_rt("Surface", "TEXTURE2D")
           \/ check_rt("Volume", "TEXTURE3D")
           \/ check_rt("Texture", "TEXTURE2D")
           \/ check_rt("VolumeTexture", "TEXTURE3D")
           \/ check_rt("CubeTexture", "TEXTURECUBE")
           \/ check_rt("VertexBuffer", "IA_VERTEX_BUFFER")
           \/ check_rt("IndexBuffer", "IA_INDEX_BUFFER")
           \/ check_usage("AUTO_GEN_MIP_MAP", "MIP_AUTOGEN")
           \/ check_usage("RENDER_TARGET", "RENDER_TARGET")
           \/ check_usage("DEPTH_STENCIL", "DEPTH_STENCIL") )

\* `dev` is the HRESULT of CheckMultisampleQualityLevels and the level count it
\* reports; `quality` starts at 0 and a failed call leaves it there.
is_multisampling_supported(dev) ==
    IF dev.hr = 0 THEN dev.levels ELSE 0

caps(self) ==
    [ DeviceType              |-> "D3DDEVTYPE_HAL",
      AdapterOrdinal          |-> self.index,
      MasterAdapterOrdinal    |-> self.index,
      NumberOfAdaptersInGroup |-> 1,
      AdapterOrdinalInGroup   |-> 0 ]

identifier(self) ==
    [ Driver           |-> "D3D 9-to-11 Driver",
      DeviceName       |-> <<"DISPLAY", self.index>>,
      DriverVersion    |-> 1,
      DeviceId         |-> self.adapter_desc.AdapterLuid,
      DeviceIdentifier |-> 0,                   \* left as mem::zeroed()
      WHQLLevel        |-> 1 ]

\* A null HMONITOR is 0.
monitor(self) ==
    IF self.output_desc # <<>> THEN self.output_desc[1].Monitor ELSE 0


(***************************************************************************)
(* Context: validation helpers and the legacy methods, as functions of the *)
(* adapter list `self` and the call's arguments.                           *)
(***************************************************************************)
check_adapter_defaulting(self, adapter) ==
    IF adapter < Len(self) THEN << self[adapter + 1] >>
    ELSE IF Len(self) > 0 THEN << self[1] >>
    ELSE <<>>

\* self.adapters.get(adapter as usize).ok_or(Error::InvalidCall)
check_adapter(self, adapter) ==
    IF adapter < Len(self) THEN << self[adapter + 1] >> ELSE <<>>

check_devty_any_rasterizer(dev_ty) ==
    IF dev_ty \in {"D3DDEVTYPE_HAL", "D3DDEVTYPE_REF"} THEN "Success" ELSE "InvalidCall"

check_devty(dev_ty) ==
    IF dev_ty = "D3DDEVTYPE_HAL" THEN "Success" ELSE "InvalidCall"

register_software_device(init_fn) ==
    IF check_mut_ref(init_fn) = <<>> THEN "InvalidCall" ELSE "Success"

get_adapter_count(self) == Len(self)

get_adapter_identifier(self, adapter, ident) ==
    LET a == check_adapter(self, adapter)
    IN  IF a = <<>> THEN [ret |-> "InvalidCall", out |-> <<>>]
        ELSE IF check_mut_ref(ident) = <<>> THEN [ret |-> "InvalidCall", out |-> <<>>]
        ELSE [ret |-> "Success", out |-> << identifier(a[1]) >>]

\* The adapter list after adapter `adapter` ran an operation that left `cache`.
WithCache(self, adapter, cache) ==
    [self EXCEPT ![adapter + 1].mode_cache = cache]

get_adapter_mode_count(self, adapter, fmt) ==
    IF adapter < Len(self)                      \* self.adapters.get(adapter as usize)
    THEN { [val |-> r.val, self |-> WithCache(self, adapter, r.mode_cache), calls |-> r.calls] :
             r \in mode_count(self[adapter + 1], fmt) }
    ELSE { [val |-> 0, self |-> self, calls |-> 0] }    \* unwrap_or_default

\* `inner` is what Adapter::mode returned: <<>> when it was not called.
enum_adapter_modes(self, adapter, fmt, i, mode_ptr) ==
    LET a == check_adapter(self, adapter)
    IN  IF a = <<>>
        THEN { [ret |-> "InvalidCall", out |-> <<>>, inner |-> <<>>, self |-> self, calls |-> 0] }
        ELSE IF check_mut_ref(mode_ptr) = <<>>
        THEN { [ret |-> "InvalidCall", out |-> <<>>, inner |-> <<>>, self |-> self, calls |-> 0] }
        ELSE { [ ret   |-> IF r.val = <<>> THEN "NotAvailable" ELSE "Success",
                 out   |-> r.val,
                 inner |-> << r.val >>,
                 self  |-> WithCache(self, adapter, r.mode_cache),
                 calls |-> r.calls ] : r \in mode(a[1], fmt, i) }

get_adapter_monitor(self, adapter) ==
    LET a == check_adapter(self, adapter)
    IN  IF a = <<>> THEN 0 ELSE monitor(a[1])

\* What GetMonitorInfoW may answer for a monitor handle: it fails (0) on a null
\* handle, and may fail or succeed on a monitor.
MonitorInfos(hmonitor) ==
    { [result |-> 0, rcMonitor |-> [left |-> 0, top |-> 0, right |-> 0, bottom |-> 0]] }
    \cup (IF hmonitor = 0 THEN {}
          ELSE { [result |-> 1, rcMonitor |-> [left |-> -800, top |-> 0, right |-> 224, bottom |-> 768]] })

get_adapter_display_mode(self, adapter, mode_ptr, info) ==
    IF check_mut_ref(mode_ptr) = <<>>
    THEN [ret |-> "InvalidCall", out |-> <<>>, panic |-> FALSE]
    ELSE IF info.result = 0                     \* assert_ne!(result, 0, ..)
    THEN [ret |-> "Panic", out |-> <<>>, panic |-> TRUE]
    ELSE [ ret   |-> "Success",
           out   |-> << [ Width       |-> info.rcMonitor.right - info.rcMonitor.left,
                          Height      |-> info.rcMonitor.bottom - info.rcMonitor.top,
                          RefreshRate |-> 0,
                          Format      |-> "D3DFMT_X8R8G8B8" ] >>,
           panic |-> FALSE ]

check_device_type(self, adapter, ty, adapter_fmt) ==
    IF check_adapter(self, adapter) = <<>> THEN "InvalidCall"
    ELSE IF check_devty(ty) # "Success" THEN check_devty(ty)
    ELSE IF is_display_mode_format(adapter_fmt) THEN "Success"
    ELSE "NotAvailable"

check_device_format(self, adapter, ty, usage, rt, dev) ==
    IF check_adapter(self, adapter) = <<>> THEN "InvalidCall"
    ELSE IF check_devty(ty) # "Success" THEN check_devty(ty)
    ELSE IF is_format_supported(dev, rt, usage) THEN "Success"
    ELSE "NotAvailable"

check_device_multi_sample_type_unchecked(self, adapter, ty, quality, dev) ==
    IF check_adapter(self, adapter) = <<>> THEN [ret |-> "InvalidCall", out |-> <<>>]
    ELSE IF check_devty(ty) # "Success" THEN [ret |-> check_devty(ty), out |-> <<>>]
    ELSE LET q == is_multisampling_supported(dev)
         IN  [ ret |-> "Success",
               out |-> IF check_mut_ref(quality) # <<>> THEN <<q>> ELSE <<>> ]

check_device_multi_sample_type(self, adapter, ty, quality, dev) ==
    IF check_adapter(self, adapter) = <<>> THEN [ret |-> "InvalidCall", out |-> <<>>]
    ELSE IF check_devty(ty) # "Success" THEN [ret |-> check_devty(ty), out |-> <<>>]
    ELSE LET q == is_multisampling_supported(dev)
         IN  [ ret |-> IF q = 0 THEN "NotAvailable" ELSE "Success",
               \* if let Ok(quality) = quality { *quality = q; }
               out |-> IF check_mut_ref(quality) # <<>> THEN <<q>> ELSE <<>> ]

check_depth_stencil_match(self, adapter, ty, ds_fmt) ==
    IF check_adapter(self, adapter) = <<>> THEN "InvalidCall"
    ELSE IF check_devty(ty) # "Success" THEN check_devty(ty)
    ELSE IF is_depth_stencil_format(ds_fmt) THEN "Success"
    ELSE "NotAvailable"

check_device_format_conversion(self, adapter, ty) ==
    IF check_adapter(self, adapter) = <<>> THEN "InvalidCall"
    ELSE IF check_devty(ty) # "Success" THEN check_devty(ty)
    ELSE "Success"

get_device_caps(self, adapter, ty, caps_ptr) ==
    LET a == check_adapter(self, adapter)
    IN  IF a = <<>> THEN [ret |-> "InvalidCall", out |-> <<>>]
        ELSE IF check_devty(ty) # "Success" THEN [ret |-> check_devty(ty), out |-> <<>>]
        ELSE IF check_mut_ref(caps_ptr) = <<>> THEN [ret |-> "InvalidCall", out |-> <<>>]
        ELSE [ret |-> "Success", out |-> << caps(a[1]) >>]


\* The behaviour flags create_device looks at.
CreateFlags == {"D3DCREATE_FPU_PRESERVE", "D3DCREATE_ADAPTERGROUP_DEVICE"}

\* The control word create_device loads, from the one it stored: the bits of
\* 0b11_11_00_00_11 << 6 are kept (rounding and precision control are cleared),
\* and the bits of (1 << 6) - 1 are set (every exception masked).
fpu_control_word(c) ==
    (c \cap { b + 6 : b \in {0, 1, 6, 7, 8, 9} }) \cup (0 .. 5)

\* Device::new: the outcomes of the Device collaborator.
DeviceResults == {"Success", "InvalidCall", "NotAvailable"}

\* Device::new(self, adapter, cp, pp, factory): Err is <<>>, Ok(device) is <<device>>.
DeviceNew(adapter, cp, result) ==
    IF result = "Success" THEN << [adapter |-> adapter.index, cp |-> cp] >> ELSE <<>>

\* The outcome of one create_device call: the status, the device written through
\* the out-pointer (<<>>: nothing was written), the control word afterwards and the
\* number of times the control word was loaded (fldcw).
CreateDeviceResult(ret, out, cw, writes) ==
    [ret |-> ret, out |-> out, fpucw |-> cw, writes |-> writes]

create_device_ignoring_preserve(self, adapter, ty, flags, pp, device, result, cw) ==
    IF check_devty(ty) # "Success" THEN CreateDeviceResult(check_devty(ty), <<>>, cw, 0)
    ELSE IF check_mut_ref(device) = <<>> THEN CreateDeviceResult("InvalidCall", <<>>, cw, 0)
    ELSE
      LET c  == fpu_control_word(cw)
          cp == [ AdapterOrdinal |-> adapter, DeviceType |-> "D3DDEVTYPE_HAL",
                  BehaviorFlags |-> flags ]
      IN  IF check_mut_ref(pp) = <<>> THEN CreateDeviceResult("InvalidCall", <<>>, c, 1)
          ELSE IF check_adapter(self, adapter) = <<>>
          THEN CreateDeviceResult("InvalidCall", <<>>, c, 1)
          ELSE LET dev == DeviceNew(check_adapter(self, adapter)[1], cp, result)
               IN  IF dev = <<>> THEN CreateDeviceResult(result, <<>>, c, 1)
                   ELSE CreateDeviceResult("Success", dev, c, 1)

create_device_out_before_check(self, adapter, ty, flags, pp, device, result, cw) ==
    IF check_devty(ty) # "Success" THEN CreateDeviceResult(check_devty(ty), <<>>, cw, 0)
    ELSE IF check_mut_ref(device) = <<>> THEN CreateDeviceResult("InvalidCall", <<>>, cw, 0)
    ELSE
      LET preserve == "D3DCREATE_FPU_PRESERVE" \in flags
          c      == IF preserve THEN cw ELSE fpu_control_word(cw)
          writes == IF preserve THEN 0 ELSE 1
          cp == [ AdapterOrdinal |-> adapter, DeviceType |-> "D3DDEVTYPE_HAL",
                  BehaviorFlags |-> flags ]
      IN  IF check_mut_ref(pp) = <<>> THEN CreateDeviceResult("InvalidCall", <<>>, c, writes)
          ELSE IF check_adapter(self, adapter) = <<>>
          THEN CreateDeviceResult("InvalidCall", <<>>, c, writes)
          ELSE LET a == check_adapter(self, adapter)[1]
               IN  CreateDeviceResult(result, << [adapter |-> a.index, cp |-> cp] >>, c, writes)

create_device(self, adapter, ty, flags, pp, device, result, cw) ==
    IF check_devty(ty) # "Success" THEN CreateDeviceResult(check_devty(ty), <<>>, cw, 0)
    ELSE IF check_mut_ref(device) = <<>> THEN CreateDeviceResult("InvalidCall", <<>>, cw, 0)
    ELSE
      LET preserve == "D3DCREATE_FPU_PRESERVE" \in flags
          c      == IF preserve THEN cw ELSE fpu_control_word(cw)    \* fnstcw .. fldcw
          writes == IF preserve THEN 0 ELSE 1
          cp == [ AdapterOrdinal |-> adapter, DeviceType |-> "D3DDEVTYPE_HAL",
                  BehaviorFlags |-> flags ]
      IN  IF check_mut_ref(pp) = <<>> THEN CreateDeviceResult("InvalidCall", <<>>, c, writes)
          ELSE IF check_adapter(self, adapter) = <<>>
          THEN CreateDeviceResult("InvalidCall", <<>>, c, writes)
          ELSE LET dev == DeviceNew(check_adapter(self, adapter)[1], cp, result)
               IN  IF dev = <<>> THEN CreateDeviceResult(result, <<>>, c, writes)   \* `?`
                   ELSE CreateDeviceResult("Success", dev, c, writes)              \* *ret = ..


(***************************************************************************)
(* Actions: one legacy call each, made on a live Context by a process that *)
(* has not been aborted.  Calls are synchronous and made one at a time:    *)
(* `last` holds the call until the caller has taken its result (Return).   *)
(***************************************************************************)
Callable == created /\ ~aborted /\ last = NoCall

Call(op, args, ret, out, val) ==
    [op |-> op, args |-> args, ret |-> ret, out |-> out, val |-> val]

\* The answers of the capability device the Context-level calls are tried with.
FormatAnswers ==
    { [hr |-> 0, support |-> SupportBits],
      [hr |-> 0, support |-> {"TEXTURE2D"}],
      [hr |-> -1, support |-> {}] }

QualityAnswers == [hr : DriverResults, levels : 0 .. MaxQuality]

RegisterSoftwareDevice ==
    /\ Callable
    /\ \E init_fn \in BOOLEAN :
         last' = Call("register_software_device", [init_fn |-> init_fn],
                      register_software_device(init_fn), <<>>, <<>>)
    /\ UNCHANGED <<gpus, created, adapters, queries, aborted, conc, fpucw>>

GetAdapterCount ==
    /\ Callable
    /\ last' = Call("get_adapter_count", [adapter |-> 0], "Success", <<>>,
                    << get_adapter_count(adapters) >>)
    /\ UNCHANGED <<gpus, created, adapters, queries, aborted, conc, fpucw>>

GetAdapterIdentifier ==
    /\ Callable
    /\ \E adapter \in Ordinals, ident \in BOOLEAN :
         LET r == get_adapter_identifier(adapters, adapter, ident)
         IN  last' = Call("get_adapter_identifier", [adapter |-> adapter, ptr |-> ident],
                          r.ret, r.out, <<>>)
    /\ UNCHANGED <<gpus, created, adapters, queries, aborted, conc, fpucw>>

\* The call counts after adapter `adapter` made `calls` GetDisplayModeList calls for fmt.
Counted(adapter, fmt, calls) ==
    IF calls = 0 THEN queries
    ELSE [queries EXCEPT ![adapter + 1][fmt] = @ + calls]

GetAdapterModeCount ==
    /\ Callable
    /\ \E adapter \in Ordinals, fmt \in Formats :
         \E r \in get_adapter_mode_count(adapters, adapter, fmt) :
            /\ adapters' = r.self
            /\ queries' = Counted(adapter, fmt, r.calls)
            /\ last' = Call("get_adapter_mode_count", [adapter |-> adapter, fmt |-> fmt],
                            "Success", <<>>, << r.val >>)
    /\ UNCHANGED <<gpus, created, aborted, conc, fpucw>>

EnumAdapterModes ==
    /\ Callable
    /\ \E adapter \in Ordinals, fmt \in Formats, i \in 0 .. MaxModes + 1, mode_ptr \in BOOLEAN :
         \E r \in enum_adapter_modes(adapters, adapter, fmt, i, mode_ptr) :
            /\ adapters' = r.self
            /\ queries' = Counted(adapter, fmt, r.calls)
            /\ last' = Call("enum_adapter_modes",
                            [adapter |-> adapter, fmt |-> fmt, i |-> i, ptr |-> mode_ptr],
                            r.ret, r.out, r.inner)
    /\ UNCHANGED <<gpus, created, aborted, conc, fpucw>>

GetAdapterMonitor ==
    /\ Callable
    /\ \E adapter \in Ordinals :
         last' = Call("get_adapter_monitor", [adapter |-> adapter], "Success", <<>>,
                      << get_adapter_monitor(adapters, adapter) >>)
    /\ UNCHANGED <<gpus, created, adapters, queries, aborted, conc, fpucw>>

GetAdapterDisplayMode ==
    /\ Callable
    /\ \E adapter \in Ordinals, mode_ptr \in BOOLEAN :
         \E info \in MonitorInfos(get_adapter_monitor(adapters, adapter)) :
            LET r == get_adapter_display_mode(adapters, adapter, mode_ptr, info)
            IN  /\ last' = Call("get_adapter_display_mode", [adapter |-> adapter, ptr |-> mode_ptr],
                                r.ret, r.out, <<>>)
                /\ aborted' = r.panic
    /\ UNCHANGED <<gpus, created, adapters, queries, conc, fpucw>>

CheckDeviceType ==
    /\ Callable
    /\ \E adapter \in Ordinals, ty \in DevTypes, adapter_fmt \in Formats :
         last' = Call("check_device_type", [adapter |-> adapter, ty |-> ty, fmt |-> adapter_fmt],
                      check_device_type(adapters, adapter, ty, adapter_fmt), <<>>, <<>>)
    /\ UNCHANGED <<gpus, created, adapters, queries, aborted, conc, fpucw>>

CheckDeviceFormat ==
    /\ Callable
    /\ \E adapter \in Ordinals, ty \in DevTypes, rt \in ResourceTypes,
          usage \in {{}, {"RENDER_TARGET"}}, dev \in FormatAnswers :
         last' = Call("check_device_format",
                      [adapter |-> adapter, ty |-> ty, rt |-> rt, usage |-> usage, dev |-> dev],
                      check_device_format(adapters, adapter, ty, usage, rt, dev), <<>>, <<>>)
    /\ UNCHANGED <<gpus, created, adapters, queries, aborted, conc, fpucw>>

CheckDeviceMultiSampleType ==
    /\ Callable
    /\ \E adapter \in Ordinals, ty \in DevTypes, quality \in BOOLEAN, dev \in QualityAnswers :
         LET r == check_device_multi_sample_type(adapters, adapter, ty, quality, dev)
         IN  last' = Call("check_device_multi_sample_type",
                          [adapter |-> adapter, ty |-> ty, ptr |-> quality, dev |-> dev],
                          r.ret, r.out, <<>>)
    /\ UNCHANGED <<gpus, created, adapters, queries, aborted, conc, fpucw>>

CheckDepthStencilMatch ==
    /\ Callable
    /\ \E adapter \in Ordinals, ty \in DevTypes, ds_fmt \in Formats :
         last' = Call("check_depth_stencil_match", [adapter |-> adapter, ty |-> ty, fmt |-> ds_fmt],
                      check_depth_stencil_match(adapters, adapter, ty, ds_fmt), <<>>, <<>>)
    /\ UNCHANGED <<gpus, created, adapters, queries, aborted, conc, fpucw>>

CheckDeviceFormatConversion ==
    /\ Callable
    /\ \E adapter \in Ordinals, ty \in DevTypes :
         last' = Call("check_device_format_conversion", [adapter |-> adapter, ty |-> ty],
                      check_device_format_conversion(adapters, adapter, ty), <<>>, <<>>)
    /\ UNCHANGED <<gpus, created, adapters, queries, aborted, conc, fpucw>>

GetDeviceCaps ==
    /\ Callable
    /\ \E adapter \in Ordinals, ty \in DevTypes, caps_ptr \in BOOLEAN :
         LET r == get_device_caps(adapters, adapter, ty, caps_ptr)
         IN  last' = Call("get_device_caps", [adapter |-> adapter, ty |-> ty, ptr |-> caps_ptr],
                          r.ret, r.out, <<>>)
    /\ UNCHANGED <<gpus, created, adapters, queries, aborted, conc, fpucw>>

\* create_device; `result` is what Device::new answers if the call gets to it.
CreateDevice ==
    /\ Callable
    /\ \E adapter \in Ordinals, ty \in DevTypes, flags \in SUBSET CreateFlags,
          pp \in BOOLEAN, device \in BOOLEAN, result \in DeviceResults :
         LET r == create_device(adapters, adapter, ty, flags, pp, device, result, fpucw)
         IN  /\ fpucw' = r.fpucw
             /\ last' = Call("create_device",
                             [adapter |-> adapter, ty |-> ty, flags |-> flags, pp |-> pp,
                              ptr |-> device, result |-> result, cw |-> fpucw],
                             r.ret, r.out, << r.writes >>)
    /\ UNCHANGED <<gpus, created, adapters, queries, aborted, conc>>

(***************************************************************************)
(* Adapter::mode_count and Adapter::mode entered by several threads at      *)
(* once, on adapter 0.  mode_cache is a RefCell: borrow() and borrow_mut()  *)
(* test and set a borrow flag that is not atomic, and nothing else orders   *)
(* the threads.  A thread is at one of these places:                        *)
(*   "cache"      in cache_display_modes, before borrow()                   *)
(*   "checking"   holding the shared borrow, before contains_key            *)
(*   "query"      the key was absent; before the GetDisplayModeList calls   *)
(*   "insert"     holding the mode list, before borrow_mut()                *)
(*   "inserting"  holding the exclusive borrow, before insert               *)
(*   "read"       back in mode_count / mode, before borrow()                *)
(*   "reading"    holding the shared borrow, before the entry is read       *)
(*   "done"       returning                                                 *)
(***************************************************************************)
Live == created /\ ~aborted /\ ~conc.race /\ Len(adapters) > 0

At(t, pc) == conc.th[t].pc = pc

Goto(t, pc) == [conc EXCEPT !.th[t].pc = pc]

\* Another thread holds a borrow of the cache that excludes a new borrow():
\* an exclusive one.
WriterOther(t) == \E u \in Threads \ {t} : conc.th[u].pc = "inserting"

\* Another thread holds a borrow of the cache that excludes a new borrow_mut():
\* any one.
BorrowerOther(t) ==
    \E u \in Threads \ {t} : conc.th[u].pc \in {"checking", "reading", "inserting"}

\* A borrow that conflicts with one held by another thread.  If the thread sees the
\* other's borrow flag, the RefCell panics; the flag is not atomic, so it may also
\* miss it, and then both threads access the map at once: a data race.
Conflict ==
    \/ /\ aborted' = TRUE
       /\ UNCHANGED conc
    \/ /\ conc' = [conc EXCEPT !.race = TRUE]
       /\ UNCHANGED aborted

\* mode_count(fmt) / mode(fmt, 0), up to the call of cache_display_modes.
Enter(t) ==
    /\ Live /\ At(t, "idle")
    /\ \E op \in {"mode_count", "mode"}, fmt \in Formats :
         conc' = [conc EXCEPT !.th[t] =
            IF ~adapters[1].output \/ ~is_display_mode_format(fmt)
            THEN [ pc |-> "done", op |-> op, fmt |-> fmt, buf |-> <<>>,
                   val |-> IF op = "mode_count" THEN <<0>> ELSE <<>> ]
            ELSE [ pc |-> "cache", op |-> op, fmt |-> fmt, buf |-> <<>>, val |-> <<>> ] ]
    /\ UNCHANGED <<gpus, created, adapters, queries, last, aborted, fpucw>>

\* cache_display_modes: let mode_cache = self.mode_cache.borrow();
CheckBorrow(t) ==
    /\ Live /\ At(t, "cache")
    /\ IF WriterOther(t) THEN Conflict
       ELSE conc' = Goto(t, "checking") /\ UNCHANGED aborted
    /\ UNCHANGED <<gpus, created, adapters, queries, last, fpucw>>

\* cache_display_modes: if mode_cache.contains_key(&fmt) { return; }  The borrow ends.
CheckContains(t) ==
    /\ Live /\ At(t, "checking")
    /\ conc' = Goto(t, IF adapters[1].mode_cache[conc.th[t].fmt] # <<>> THEN "read" ELSE "query")
    /\ UNCHANGED <<gpus, created, adapters, queries, last, aborted, fpucw>>

\* The mode lists the output reports while threads race: a list is told from
\* another by its length.
UniformModeLists(hr1, hr2) ==
    { l \in DisplayModeLists(hr1, hr2) :
        \A i \in 1 .. Len(l) : l[i].Width = 800 }

\* cache_display_modes: the two GetDisplayModeList calls fill the thread's own buffer.
Query(t) ==
    /\ Live /\ At(t, "query")
    /\ \E hr1 \in DriverResults, hr2 \in DriverResults : \E l \in UniformModeLists(hr1, hr2) :
         conc' = [conc EXCEPT !.th[t].pc = "insert", !.th[t].buf = l]
    /\ queries' = [queries EXCEPT ![1][conc.th[t].fmt] = @ + 2]
    /\ UNCHANGED <<gpus, created, adapters, last, aborted, fpucw>>

\* cache_display_modes: let mut mode_cache = self.mode_cache.borrow_mut();
InsertBorrow(t) ==
    /\ Live /\ At(t, "insert")
    /\ IF BorrowerOther(t) THEN Conflict
       ELSE conc' = Goto(t, "inserting") /\ UNCHANGED aborted
    /\ UNCHANGED <<gpus, created, adapters, queries, last, fpucw>>

\* cache_display_modes: mode_cache.insert(fmt, mode_descs);  The borrow ends.
Insert(t) ==
    /\ Live /\ At(t, "inserting")
    /\ adapters' = [adapters EXCEPT ![1].mode_cache[conc.th[t].fmt] = << conc.th[t].buf >>]
    /\ conc' = [conc EXCEPT !.th[t].pc = "read", !.th[t].buf = <<>>,
                            !.inserts[conc.th[t].fmt] = @ + 1]
    /\ UNCHANGED <<gpus, created, queries, last, aborted, fpucw>>

\* mode_count / mode: let mode_cache = self.mode_cache.borrow();
ReadBorrow(t) ==
    /\ Live /\ At(t, "read")
    /\ IF WriterOther(t) THEN Conflict
       ELSE conc' = Goto(t, "reading") /\ UNCHANGED aborted
    /\ UNCHANGED <<gpus, created, adapters, queries, last, fpucw>>

\* mode_count: modes.len();  mode: modes.get(0).map(..).  The borrow ends.
Read(t) ==
    /\ Live /\ At(t, "reading")
    /\ LET me    == conc.th[t]
           modes == adapters[1].mode_cache[me.fmt][1]
       IN  conc' = [conc EXCEPT !.th[t].pc = "done",
                                !.th[t].val =
                                   IF me.op = "mode_count" THEN << Len(modes) >>
                                   ELSE IF 0 < Len(modes)
                                   THEN << DisplayModeOf(modes[1], me.fmt) >>
                                   ELSE <<>> ]
    /\ UNCHANGED <<gpus, created, adapters, queries, last, aborted, fpucw>>

\* The thread's call returns.
ThreadReturn(t) ==
    /\ Live /\ At(t, "done")
    /\ conc' = [conc EXCEPT !.th[t] = IdleThread]
    /\ UNCHANGED <<gpus, created, adapters, queries, last, aborted, fpucw>>

\* Adapter::is_format_supported applied to a drawn query (see InitFormat).
IsFormatSupported ==
    /\ created /\ ~aborted
    /\ last.op = "format_query"
    /\ last' = [last EXCEPT !.op = "is_format_supported",
                            !.val = << is_format_supported(last.args.dev, last.args.rt,
                                                           last.args.usage) >>]
    /\ UNCHANGED <<gpus, created, adapters, queries, aborted, conc, fpucw>>

\* The caller takes the result of the call; the Context is idle again.
Return ==
    /\ created /\ ~aborted
    /\ last # NoCall
    /\ last.op # "format_query"
    /\ last' = NoCall
    /\ UNCHANGED <<gpus, created, adapters, queries, aborted, conc, fpucw>>

(***************************************************************************)
(* Specifications.                                                         *)
(*                                                                         *)
(* Spec: every legacy call, on the Context of a system with at most one    *)
(* GPU of any kind.                                                        *)
(* SpecEnum: the Context of a system with up to MaxGpus GPUs of any kind,  *)
(* and the calls that read the adapter list without filling a mode cache.  *)
(* SpecFormat: Adapter::is_format_supported on every query and answer.     *)
(* SpecDevice: create_device on the Context of a system with at most one   *)
(* GPU, in a process with any of the control words of FpuWords.            *)
(* SpecConc: the threads of Threads inside mode_count / mode of adapter 0. *)
(***************************************************************************)
Init == \E factoryOk \in BOOLEAN, env \in GpuLists(1) : AfterNew(factoryOk, env)

Next ==
    \/ RegisterSoftwareDevice
    \/ GetAdapterCount
    \/ GetAdapterIdentifier
    \/ GetAdapterModeCount
    \/ EnumAdapterModes
    \/ GetAdapterMonitor
    \/ GetAdapterDisplayMode
    \/ CheckDeviceType
    \/ CheckDeviceFormat
    \/ CheckDeviceMultiSampleType
    \/ CheckDepthStencilMatch
    \/ CheckDeviceFormatConversion
    \/ GetDeviceCaps
    \/ Return

Spec == Init /\ [][Next]_vars

InitEnum == \E factoryOk \in BOOLEAN, env \in GpuLists(MaxGpus) : AfterNew(factoryOk, env)

NextEnum ==
    \/ GetAdapterCount
    \/ GetAdapterIdentifier
    \/ GetAdapterMonitor
    \/ CheckDeviceType
    \/ GetDeviceCaps
    \/ Return

SpecEnum == InitEnum /\ [][NextEnum]_vars

HealthyGpu == [descOk |-> TRUE, hasOutput |-> TRUE, outDescOk |-> TRUE, devOk |-> TRUE]

InitFormat ==
    /\ created = TRUE
    /\ gpus = << HealthyGpu >>
    /\ adapters = ScanAdapters(gpus, 0)
    /\ queries = [a \in 1 .. Len(adapters) |-> [f \in Formats |-> 0]]
    /\ aborted = FALSE
    /\ conc = ConcIdle
    /\ fpucw = DefaultCw
    /\ \E dev \in [hr : DriverResults, support : SUBSET SupportBits],
          rt \in ResourceTypes, usage \in SUBSET UsageBits :
         last = Call("format_query", [dev |-> dev, rt |-> rt, usage |-> usage],
                     "Success", <<>>, <<>>)

NextFormat ==
    \/ IsFormatSupported
    \/ Return

SpecFormat == InitFormat /\ [][NextFormat]_vars

\* The control words a process may have when it calls create_device: the default,
\* and one with an exception unmasked, double precision, rounding toward zero and
\* bit 12 set.
FpuWords == { DefaultCw, {1, 2, 3, 4, 5, 6, 9, 10, 11, 12} }

InitDevice ==
    /\ \E factoryOk \in BOOLEAN, env \in GpuLists(1) :
          /\ created = factoryOk
          /\ gpus = (IF factoryOk THEN env ELSE <<>>)
          /\ adapters = (IF factoryOk THEN ScanAdapters(env, 0) ELSE <<>>)
    /\ queries = [a \in 1 .. Len(adapters) |-> [f \in Formats |-> 0]]
    /\ last = NoCall
    /\ aborted = FALSE
    /\ conc = ConcIdle
    /\ fpucw \in FpuWords

NextDevice ==
    \/ CreateDevice
    \/ GetAdapterCount
    \/ Return

SpecDevice == InitDevice /\ [][NextDevice]_vars

InitConc ==
    /\ created = TRUE
    /\ \E g \in {h \in GpuSet : h.descOk /\ h.devOk /\ h.outDescOk = h.hasOutput} : gpus = << g >>
    /\ adapters = ScanAdapters(gpus, 0)
    /\ queries = [a \in 1 .. Len(adapters) |-> [f \in Formats |-> 0]]
    /\ last = NoCall
    /\ aborted = FALSE
    /\ conc = ConcIdle
    /\ fpucw = DefaultCw

NextConc ==
    \E t \in Threads :
        \/ Enter(t)
        \/ CheckBorrow(t)
        \/ CheckContains(t)
        \/ Query(t)
        \/ InsertBorrow(t)
        \/ Insert(t)
        \/ ReadBorrow(t)
        \/ Read(t)
        \/ ThreadReturn(t)

SpecConc == InitConc /\ [][NextConc]_vars


(***************************************************************************)
(* Claims.                                                                 *)
(***************************************************************************)
StatusCodes == {"Success", "InvalidCall", "NotAvailable"}

\* The last call named adapter ordinal `adapter`, which resolves to an adapter.
OnValidAdapter == last.args.adapter < get_adapter_count(adapters)

\* The GPUs constructed during Context::new: those up to the first whose
\* construction fails.
Constructed ==
    { k \in 1 .. Len(gpus) : \A j \in 1 .. k : AdapterNew(j - 1, gpus[j]) # <<>> }

\* C1: with N adapters constructed, getAdapterCount() is N, every ordinal below N
\* resolves through checkAdapter, and the adapter at position i has index i, the
\* ordinal its caps and its device name report.
C1_DenseOrdinals ==
    created =>
        /\ Len(adapters) = Cardinality(Constructed)
        /\ get_adapter_count(adapters) = Cardinality(Constructed)
        /\ \A i \in 0 .. Len(adapters) - 1 :
              /\ check_adapter(adapters, i) # <<>>
              /\ check_adapter(adapters, i)[1].index = i
              /\ adapters[i + 1].index = i
        /\ (last.op = "get_adapter_count" => last.val = << Cardinality(Constructed) >>)
        /\ (last.op = "get_device_caps" /\ last.ret = "Success"
              => last.out[1].AdapterOrdinal = last.args.adapter)
        /\ (last.op = "get_adapter_identifier" /\ last.ret = "Success"
              => last.out[1].DeviceName = <<"DISPLAY", last.args.adapter>>)

C1_Witness ==
    /\ Len(adapters) = 2
    /\ last.op = "get_device_caps"
    /\ last.args.adapter = 1
    /\ last.ret = "Success"

\* C2: a GPU whose Adapter construction fails is skipped and the enumeration goes
\* on: every later GPU that constructs is in the adapter list, and the Context is
\* created.
C2_SkippedNotFatal ==
    created =>
        \A k \in 1 .. Len(gpus), j \in 1 .. Len(gpus) :
            ( /\ k < j
              /\ AdapterNew(k - 1, gpus[k]) = <<>>
              /\ AdapterNew(j - 1, gpus[j]) # <<>> )
            => \E i \in 1 .. Len(adapters) : adapters[i].adapter_desc.AdapterLuid = j - 1

\* C3: an ordinal at or above getAdapterCount() fails checkAdapter, and each of the
\* eight methods that check the adapter returns InvalidCall and writes nothing.
AdapterCheckedOps ==
    { "get_adapter_identifier", "enum_adapter_modes", "check_device_type",
      "check_device_format", "check_device_multi_sample_type",
      "check_depth_stencil_match", "check_device_format_conversion", "get_device_caps" }

C3_InvalidOrdinal ==
    /\ \A adapter \in Ordinals :
          adapter >= get_adapter_count(adapters) => check_adapter(adapters, adapter) = <<>>
    /\ (last.op \in AdapterCheckedOps /\ last.args.adapter >= get_adapter_count(adapters))
          => (last.ret = "InvalidCall" /\ last.out = <<>>)

C3_Witness ==
    /\ Len(adapters) = 1
    /\ last.op = "get_device_caps"
    /\ last.args.adapter = get_adapter_count(adapters)
    /\ last.args.ty = "D3DDEVTYPE_HAL"
    /\ last.args.ptr
    /\ last.ret = "InvalidCall"

\* C4: no legacy call aborts the process: each one returns a legacy status code.
C4_NeverAborts ==
    /\ ~aborted
    /\ last.ret \in StatusCodes

\* C5: for one adapter and format the output is queried by at most one cache
\* population (its count call and its fill call), whatever the driver answered;
\* once the format is cached no call queries the output for it again or changes
\* its entry, and every modeCount(f) returns the length of that entry.
C5_QueriedOnce ==
    [][ \A a \in 1 .. Len(adapters), f \in Formats :
          /\ queries'[a][f] <= 2
          /\ (adapters[a].mode_cache[f] # <<>>
                => /\ queries'[a][f] = queries[a][f]
                   /\ adapters'[a].mode_cache[f] = adapters[a].mode_cache[f])
          /\ ( /\ last'.op = "get_adapter_mode_count"
               /\ last'.args.adapter = a - 1
               /\ last'.args.fmt = f
               /\ adapters'[a].mode_cache[f] # <<>> )
             => last'.val = << Len(adapters'[a].mode_cache[f][1]) >> ]_vars

\* A modeCount(f) answered 0 from an entry the output's failed or empty answer left.
C5_Witness ==
    /\ Len(adapters) = 1
    /\ adapters[1].mode_cache["D3DFMT_X8R8G8B8"] = << <<>> >>
    /\ adapters[1].mode_cache["D3DFMT_R5G6B5"] # <<>>
    /\ queries[1]["D3DFMT_X8R8G8B8"] = 2
    /\ last.op = "get_adapter_mode_count"
    /\ last.args.adapter = 0
    /\ last.args.fmt = "D3DFMT_X8R8G8B8"
    /\ last.val = <<0>>

\* C6: for a format that is no display-mode format, and for every format of an
\* adapter without output, modeCount is 0 and mode is absent at every index; the
\* output is not queried and the cache gets no key.
C6_NoModes ==
    \A a \in 1 .. Len(adapters), f \in Formats :
        (~adapters[a].output \/ ~is_display_mode_format(f)) =>
            /\ adapters[a].mode_cache[f] = <<>>
            /\ queries[a][f] = 0
            /\ \A r \in mode_count(adapters[a], f) :
                  r.val = 0 /\ r.calls = 0 /\ r.mode_cache = adapters[a].mode_cache
            /\ \A i \in 0 .. MaxModes + 1 : \A r \in mode(adapters[a], f, i) :
                  r.val = <<>> /\ r.calls = 0 /\ r.mode_cache = adapters[a].mode_cache
            /\ ( /\ last.op = "get_adapter_mode_count"
                 /\ last.args.adapter = a - 1
                 /\ last.args.fmt = f )
               => last.val = <<0>>
            /\ ( /\ last.op = "enum_adapter_modes"
                 /\ last.args.adapter = a - 1
                 /\ last.args.fmt = f
                 /\ last.args.ptr )
               => (last.val = << <<>> >> /\ last.out = <<>>)

C6_Witness ==
    /\ Len(adapters) = 1
    /\ adapters[1].output
    /\ adapters[1].mode_cache["D3DFMT_X8R8G8B8"] # <<>>
    /\ last.op = "enum_adapter_modes"
    /\ last.args.adapter = 0
    /\ last.args.fmt = "D3DFMT_D24S8"
    /\ last.args.i = 0
    /\ last.args.ptr

\* C7: for a valid adapter and a non-null out-parameter, mode(f, i) is present
\* exactly when i < modeCount(f); enumAdapterModes returns NotAvailable for every
\* i >= modeCount(f); a mode returned reports rate 0 when the cached rate has
\* denominator 0 and numerator / denominator (integer quotient) otherwise.
C7_ModeAtIndex ==
    (last.op = "enum_adapter_modes" /\ OnValidAdapter /\ last.args.ptr) =>
        LET a == adapters[last.args.adapter + 1]
            f == last.args.fmt
            i == last.args.i
        IN  \A c \in mode_count(a, f) :
                /\ (last.val[1] # <<>>) <=> (i < c.val)
                /\ (i >= c.val) => (last.ret = "NotAvailable" /\ last.out = <<>>)
                /\ (i < c.val) =>
                      LET rf == a.mode_cache[f][1][i + 1].RefreshRate
                      IN  /\ last.ret = "Success"
                          /\ last.out = last.val[1]
                          /\ rf.Denominator = 0 => last.out[1].RefreshRate = 0
                          /\ rf.Denominator # 0 =>
                                /\ last.out[1].RefreshRate * rf.Denominator <= rf.Numerator
                                /\ rf.Numerator < (last.out[1].RefreshRate + 1) * rf.Denominator

C7_Witness ==
    /\ last.op = "enum_adapter_modes"
    /\ OnValidAdapter
    /\ last.args.i = 1
    /\ last.ret = "Success"
    /\ adapters[last.args.adapter + 1].mode_cache[last.args.fmt][1][2].RefreshRate.Denominator = 0
    /\ last.out[1].RefreshRate = 0

\* C8: isFormatSupported is false when the capability query fails; when it succeeds
\* it is true exactly when the bit of the requested resource kind is set and so is
\* the bit of each of auto-mip-generation, render-target and depth-stencil present
\* in usage; no other usage flag makes it false.
RequiredBit(rt) ==
    CASE rt \in {"Surface", "Texture"} -> "TEXTURE2D"
      [] rt \in {"Volume", "VolumeTexture"} -> "TEXTURE3D"
      [] rt = "CubeTexture" -> "TEXTURECUBE"
      [] rt = "VertexBuffer" -> "IA_VERTEX_BUFFER"
      [] rt = "IndexBuffer" -> "IA_INDEX_BUFFER"

UsageBit(u) ==
    CASE u = "AUTO_GEN_MIP_MAP" -> "MIP_AUTOGEN"
      [] u = "RENDER_TARGET" -> "RENDER_TARGET"
      [] u = "DEPTH_STENCIL" -> "DEPTH_STENCIL"

C8_FormatSupport ==
    last.op = "is_format_supported" =>
        LET dev == last.args.dev
            checked == last.args.usage \cap {"AUTO_GEN_MIP_MAP", "RENDER_TARGET", "DEPTH_STENCIL"}
        IN  /\ dev.hr # 0 => last.val = <<FALSE>>
            /\ dev.hr = 0 =>
                  last.val = << /\ RequiredBit(last.args.rt) \in dev.support
                                /\ \A u \in checked : UsageBit(u) \in dev.support >>

C8_Witness ==
    /\ last.op = "is_format_supported"
    /\ last.args.dev.hr = 0
    /\ last.args.rt = "CubeTexture"
    /\ last.args.usage = {"RENDER_TARGET", "DYNAMIC"}
    /\ last.args.dev.support = {"TEXTURECUBE", "RENDER_TARGET"}
    /\ last.val = <<TRUE>>

\* C9: for a valid adapter and the hardware type, checkDeviceMultiSampleType returns
\* NotAvailable exactly when the quality-level count is 0 (a failed driver query
\* counts 0) and Success otherwise; a non-null out-parameter is set to the count,
\* and a null one changes nothing about the status.
C9_MultiSample ==
    ( /\ last.op = "check_device_multi_sample_type"
      /\ OnValidAdapter
      /\ last.args.ty = "D3DDEVTYPE_HAL" ) =>
        LET q == IF last.args.dev.hr = 0 THEN last.args.dev.levels ELSE 0
        IN  /\ last.ret = (IF q = 0 THEN "NotAvailable" ELSE "Success")
            /\ last.out = (IF last.args.ptr THEN <<q>> ELSE <<>>)

C9_Witness ==
    /\ last.op = "check_device_multi_sample_type"
    /\ OnValidAdapter
    /\ last.args.ty = "D3DDEVTYPE_HAL"
    /\ last.args.dev.hr # 0
    /\ last.args.ptr
    /\ last.ret = "NotAvailable"
    /\ last.out = <<0>>

\* C10 as stated: for a valid adapter, checkDeviceType fails with InvalidCall for
\* every type but the hardware type and succeeds for the hardware type.
C10_HardwareSucceeds ==
    (last.op = "check_device_type" /\ OnValidAdapter) =>
        /\ last.args.ty # "D3DDEVTYPE_HAL" => last.ret = "InvalidCall"
        /\ last.args.ty = "D3DDEVTYPE_HAL" => last.ret = "Success"

\* C10 as amended: for a valid adapter, checkDeviceType fails with InvalidCall for
\* every type but the hardware type; for the hardware type it succeeds when the
\* adapter format is a display-mode format and returns NotAvailable when it is not.
C10_HardwareByFormat ==
    (last.op = "check_device_type" /\ OnValidAdapter) =>
        /\ last.args.ty # "D3DDEVTYPE_HAL" => last.ret = "InvalidCall"
        /\ last.args.ty = "D3DDEVTYPE_HAL" =>
              last.ret = (IF is_display_mode_format(last.args.fmt)
                          THEN "Success" ELSE "NotAvailable")

C10_Witness ==
    /\ last.op = "check_device_type"
    /\ OnValidAdapter
    /\ last.args.ty = "D3DDEVTYPE_HAL"
    /\ last.args.fmt = "D3DFMT_D24S8"
    /\ last.ret = "NotAvailable"

\* C11: the 128-bit identifier that identifier() returns is a function of the
\* adapter alone, and two different adapters of one Context have different ones.
C11_DistinctIdentifiers ==
    \A i, j \in 1 .. Len(adapters) :
        /\ identifier(adapters[i]).DeviceIdentifier = identifier(adapters[i]).DeviceIdentifier
        /\ i # j =>
              identifier(adapters[i]).DeviceIdentifier # identifier(adapters[j]).DeviceIdentifier

\* C14 as stated: for every constructed Adapter, whatever the outcomes of the
\* output enumeration and of the output-description query, the output description
\* is absent exactly when the primary output is absent.
C14_DescIffOutput ==
    \A i \in 1 .. Len(adapters) :
        (adapters[i].output_desc = <<>>) <=> ~adapters[i].output

\* C14 as amended: for every constructed Adapter the primary output is present
\* exactly when the output enumeration found one; without a primary output the
\* output description is absent, and with one it is absent exactly when the
\* output-description query failed.
C14_DescIffQueried ==
    \A i \in 1 .. Len(adapters) :
        /\ adapters[i].output = gpus[i].hasOutput
        /\ ~adapters[i].output => adapters[i].output_desc = <<>>
        /\ adapters[i].output =>
              ((adapters[i].output_desc = <<>>) <=> ~gpus[i].outDescOk)

C14_Witness ==
    \E i \in 1 .. Len(adapters) :
        /\ gpus[i].hasOutput /\ ~gpus[i].outDescOk
        /\ adapters[i].output
        /\ adapters[i].output_desc = <<>>

\* C13: the mode cache only grows: once a format key is in an adapter's cache,
\* no later call removes the key or changes the mode sequence stored under it,
\* and no call removes an adapter.
C13_CacheOnlyGrows ==
    [][ /\ Len(adapters') = Len(adapters)
        /\ \A i \in 1 .. Len(adapters) : \A f \in Formats :
              adapters[i].mode_cache[f] # <<>> =>
                  adapters'[i].mode_cache[f] = adapters[i].mode_cache[f] ]_vars

\* Both display-mode formats are cached, the second by the call just made.
C13_Witness ==
    /\ last.op \in {"get_adapter_mode_count", "enum_adapter_modes"}
    /\ OnValidAdapter
    /\ \E f \in Formats :
          /\ f # last.args.fmt
          /\ adapters[last.args.adapter + 1].mode_cache[f] # <<>>
          /\ adapters[last.args.adapter + 1].mode_cache[last.args.fmt] # <<>>
          /\ queries[last.args.adapter + 1][f] = 2
          /\ queries[last.args.adapter + 1][last.args.fmt] = 2

\* C15: create_device loads the FPU control word only when the caller has not set
\* the FPU-preserve flag, never more than once in a call and exactly once in a call
\* that creates a device; with the flag set the control word is left as it was,
\* and no other call touches it.
C15_FpuUnlessPreserved ==
    [][ /\ last'.op # "create_device" => fpucw' = fpucw
        /\ (last = NoCall /\ last'.op = "create_device") =>
              LET preserve == "D3DCREATE_FPU_PRESERVE" \in last'.args.flags
                  writes   == last'.val[1]
              IN  /\ writes \in {0, 1}
                  /\ (writes # 0 \/ fpucw' # fpucw) => ~preserve
                  /\ preserve => (writes = 0 /\ fpucw' = fpucw)
                  /\ writes = 0 => fpucw' = fpucw
                  /\ (~preserve /\ last'.ret = "Success") =>
                        (writes = 1 /\ fpucw' = fpu_control_word(fpucw)) ]_vars

\* A device was created without the flag, and the control word changed.
C15_Witness ==
    /\ last.op = "create_device"
    /\ last.ret = "Success"
    /\ last.out # <<>>
    /\ "D3DCREATE_FPU_PRESERVE" \notin last.args.flags
    /\ last.val = <<1>>
    /\ fpucw # last.args.cw
    /\ fpucw = fpu_control_word(last.args.cw)

\* C16 as stated: a create_device call that returns an error leaves the device
\* out-parameter unwritten and the FPU control word as it was at the call.
C16_ErrorLeavesFpu ==
    (last.op = "create_device" /\ last.ret # "Success") =>
        /\ last.out = <<>>
        /\ last.val = <<0>>
        /\ fpucw = last.args.cw

\* C16 as amended: a create_device call that returns an error leaves the device
\* out-parameter unwritten.  The FPU control word is as it was at the call when the
\* error is a wrong device type or a null device out-pointer, or when the
\* FPU-preserve flag is set; in every other failing call (null presentation
\* parameters, adapter out of range, Device failure) it has been loaded once with
\* the adjusted word, because these validations follow the FPU step.
C16_ErrorLeavesOut ==
    (last.op = "create_device" /\ last.ret # "Success") =>
        LET early    == last.args.ty # "D3DDEVTYPE_HAL" \/ ~last.args.ptr
            preserve == "D3DCREATE_FPU_PRESERVE" \in last.args.flags
        IN  /\ last.out = <<>>
            /\ (early \/ preserve) => (last.val = <<0>> /\ fpucw = last.args.cw)
            /\ (~early /\ ~preserve) =>
                  (last.val = <<1>> /\ fpucw = fpu_control_word(last.args.cw))

\* A call failed on its null presentation parameters after the control word changed.
C16_Witness ==
    /\ last.op = "create_device"
    /\ last.ret = "InvalidCall"
    /\ last.args.ty = "D3DDEVTYPE_HAL" /\ last.args.ptr /\ ~last.args.pp
    /\ "D3DCREATE_FPU_PRESERVE" \notin last.args.flags
    /\ last.out = <<>>
    /\ fpucw # last.args.cw

\* C12: while threads are inside mode_count / mode of one adapter at once, no
\* borrow of the mode cache conflicts with one another thread holds (no borrow
\* panics and no two threads access the map at once with one of them writing), and
\* the entry of a format is inserted at most once.
C12_ExclusivePopulation ==
    /\ ~aborted
    /\ ~conc.race
    /\ \A f \in Formats : conc.inserts[f] <= 1
    /\ \A t \in Threads : conc.th[t].pc = "inserting" => ~BorrowerOther(t)

====
